---- MODULE Spec2Model ----
(***************************************************************************)
(* The in-memory lending library of src/src/lib/lending-library.ts: the    *)
(* catalog (booksIndex), the word index (wordIndex) and the two ledger     *)
(* mappings (patronBooks, checkBooks), with the four public operations     *)
(* addBook, findBooks, checkoutBook and returnBook and the validators they *)
(* call.                                                                   *)
(*                                                                         *)
(* JavaScript values are tagged records: a string is the tuple of its      *)
(* characters, an absent property is Missing.  A Record<string, X> is a    *)
(* function whose DOMAIN is the set of keys present.                       *)
(***************************************************************************)
EXTENDS Integers, Sequences, FiniteSets, TLC

VARIABLES booksIndex, wordIndex, patronBooks, checkBooks, last, streak, added, pc, ws, ui, web

vars == <<booksIndex, wordIndex, patronBooks, checkBooks, last, streak, added, pc, ws, ui, web>>

\* the library, its callers and what is recorded of its calls
libraryVars == <<booksIndex, wordIndex, patronBooks, checkBooks, last, streak, added, pc>>

\* ------------------------------------------------------------------------
\* Bounds
\* ------------------------------------------------------------------------

\* Cap on the stored copy count of one book (addBook is not taken beyond it).
MaxCopies == 2

\* ------------------------------------------------------------------------
\* JavaScript values
\* ------------------------------------------------------------------------

Missing == [t |-> "missing"]
Null == [t |-> "null"]
Str(cs) == [t |-> "str", s |-> cs]
Num(k) == [t |-> "num", n |-> k, int |-> TRUE]
\* the non-integer number k + 0.5
Frac(k) == [t |-> "num", n |-> k, int |-> FALSE]
Arr(xs) == [t |-> "arr", a |-> xs]

\* value || fallback, value && ...: JavaScript truthiness
Truthy(v) ==
  CASE v.t = "missing" -> FALSE
    [] v.t = "null" -> FALSE
    [] v.t = "str" -> v.s # <<>>
    [] v.t = "num" -> ~(v.int /\ v.n = 0)
    [] OTHER -> TRUE

\* The property key a value is coerced to when it indexes a Record.
ToKey(v) ==
  CASE v.t = "str" -> v.s
    [] v.t = "null" -> <<"n", "u", "l", "l">>
    [] OTHER -> <<"u", "n", "d", "e", "f", "i", "n", "e", "d">>

\* ------------------------------------------------------------------------
\* Text
\* ------------------------------------------------------------------------

UpperToLower ==
  [c \in {"A", "B", "C", "D", "Z"} |->
     CASE c = "A" -> "a" [] c = "B" -> "b" [] c = "C" -> "c"
       [] c = "D" -> "d" [] OTHER -> "z"]

\* String.prototype.toLowerCase, one character
LowerChar(c) == IF c \in DOMAIN UpperToLower THEN UpperToLower[c] ELSE c

toLowerCase(cs) == [i \in 1..Len(cs) |-> LowerChar(cs[i])]

\* /\w/
IsWordChar(c) ==
  c \in {"a", "b", "c", "d", "z", "A", "B", "C", "D", "Z", "0", "1", "_"}

\* split(/\W+/): the pieces between maximal runs of non-word characters
\* (empty pieces at either end included)
RECURSIVE splitNonWord(_, _, _)
splitNonWord(cs, cur, inSep) ==
  IF cs = <<>> THEN <<cur>>
  ELSE IF IsWordChar(Head(cs)) THEN splitNonWord(Tail(cs), Append(cur, Head(cs)), FALSE)
  ELSE IF inSep THEN splitNonWord(Tail(cs), cur, TRUE)
  ELSE <<cur>> \o splitNonWord(Tail(cs), <<>>, TRUE)

extractWords(text) ==
  SelectSeq(splitNonWord(toLowerCase(text), <<>>, FALSE), LAMBDA w : w # <<>>)

\* String.prototype.trim() === ""
IsWhitespace(c) == c \in {" "}

TrimIsEmpty(cs) == \A i \in 1..Len(cs) : IsWhitespace(cs[i])

\* ------------------------------------------------------------------------
\* Results (Errors.Result of cs544-js-utils, as the code uses it)
\* ------------------------------------------------------------------------

okResult(v) == [kind |-> "ok", val |-> v]
ErrResult(errs) == [kind |-> "err", errors |-> errs]
Err(code, widget) == [code |-> code, widget |-> widget]
errResult_NotFound(code, widget) == ErrResult(<<Err("NOT_FOUND", widget)>>)

errResult(code, widget) == ErrResult(<<Err(code, widget)>>)
\* an exception that leaves the operation (a TypeError of the runtime)
Thrown == [kind |-> "throw"]
VOID_RESULT == okResult(<<>>)

isOk(r) == r.kind = "ok"
isErr(r) == r.kind = "err"
HasCode(r, code) == isErr(r) /\ \E i \in 1..Len(r.errors) : r.errors[i].code = code
OnlyCode(r, code) ==
  isErr(r) /\ r.errors # <<>> /\ \A i \in 1..Len(r.errors) : r.errors[i].code = code

\* ------------------------------------------------------------------------
\* Schemas
\* ------------------------------------------------------------------------

Field(name, type, required, conds) ==
  [name |-> name, type |-> type, required |-> required, conds |-> conds]

\* RequiredType.Book, in Object.keys order
RequiredTypeBook ==
  << Field("isbn", "string", TRUE, <<>>),
     Field("title", "string", TRUE, <<>>),
     Field("authors", "array", TRUE, <<>>),
     Field("pages", "number", TRUE, <<"nonPositive", "notInteger">>),
     Field("year", "number", TRUE, <<"nonPositive", "notInteger">>),
     Field("publisher", "string", TRUE, <<>>),
     Field("nCopies", "number", FALSE, <<"nonPositive", "notInteger">>) >>

RequiredTypeCheckBook ==
  << Field("isbn", "string", TRUE, <<>>),
     Field("patronId", "string", TRUE, <<>>) >>

RequiredTypeFindBook ==
  << Field("search", "string", TRUE, <<"blank">>) >>

\* the cond predicates of a schema's conditions: TRUE signals a violation
CondHolds(c, v) ==
  CASE c = "nonPositive" -> IF v.int THEN v.n <= 0 ELSE v.n < 0
    [] c = "notInteger" -> ~v.int
    [] c = "blank" -> TrimIsEmpty(v.s)
    [] OTHER -> FALSE

\* ------------------------------------------------------------------------
\* Validators
\* ------------------------------------------------------------------------

RECURSIVE Concat(_)
Concat(ss) == IF ss = <<>> THEN <<>> ELSE Head(ss) \o Concat(Tail(ss))

getSchemaFromType(v) ==
  CASE v.t = "str" -> "string"
    [] v.t = "num" -> "number"
    [] v.t = "bool" -> "boolean"
    [] v.t = "arr" ->
         IF v.a # <<>> /\ \A i \in 1..Len(v.a) : v.a[i].t = "str"
         THEN "array" ELSE "object"
    [] v.t = "null" -> "null"
    [] v.t = "obj" -> "object"
    [] OTHER -> "unknown"

Result(errs, obj) == IF Len(errs) > 0 THEN ErrResult(errs) ELSE okResult(obj)

checkRequiredProps_WithTypes(objectToCheck, config) ==
  Result(Concat([i \in 1..Len(config) |->
           LET v == objectToCheck[config[i].name] IN
           IF config[i].required /\ v.t = "missing"
           THEN <<Err("MISSING", config[i].name)>>
           ELSE IF v.t # "null" /\ v.t # "missing"
                   /\ getSchemaFromType(v) # config[i].type
           THEN <<Err("BAD_TYPE", config[i].name)>> ELSE <<>>]),
         objectToCheck)

checkRequiredProps_FirstOnly(objectToCheck, config) ==
  LET absent == {i \in 1..Len(config) :
                   config[i].required /\ objectToCheck[config[i].name].t = "missing"}
  IN IF absent = {} THEN okResult(objectToCheck)
     ELSE LET first == CHOOSE i \in absent : \A j \in absent : i <= j
          IN ErrResult(<<Err("MISSING", config[first].name)>>)

checkRequiredProps(objectToCheck, config) ==
  Result(Concat([i \in 1..Len(config) |->
           IF config[i].required /\ objectToCheck[config[i].name].t = "missing"
           THEN <<Err("MISSING", config[i].name)>> ELSE <<>>]),
         objectToCheck)

checkPropsType(objectToCheck, config) ==
  Result(Concat([i \in 1..Len(config) |->
           LET v == objectToCheck[config[i].name] IN
           IF v.t # "null" /\ v.t # "missing"
              /\ getSchemaFromType(v) # config[i].type
           THEN <<Err("BAD_TYPE", config[i].name)>> ELSE <<>>]),
         objectToCheck)

checkBadReq(objectToCheck, config) ==
  Result(Concat([i \in 1..Len(config) |->
           LET v == objectToCheck[config[i].name]
               conds == config[i].conds IN
           IF v.t # "null" /\ v.t # "missing" /\ Len(conds) > 0
           THEN Concat([j \in 1..Len(conds) |->
                  IF CondHolds(conds[j], v)
                  THEN <<Err("BAD_REQ", config[i].name)>> ELSE <<>>])
           ELSE <<>>]),
         objectToCheck)

checkEqual_Unordered(value, compValue) ==
  IF value.t = "arr" /\ compValue.t = "arr"
  THEN {value.a[i] : i \in 1..Len(value.a)}
         # {compValue.a[i] : i \in 1..Len(compValue.a)}
  ELSE value.t # compValue.t \/ value # compValue

\* value !== compValue, arrays element by element
checkEqual(value, compValue) ==
  IF value.t = "arr" /\ compValue.t = "arr"
  THEN \/ Len(value.a) # Len(compValue.a)
       \/ \E i \in 1..Len(value.a) : value.a[i] # compValue.a[i]
  ELSE value.t # compValue.t \/ value # compValue

checkInconsistentProps(objectToCheck, comparisonObject, config) ==
  Result(Concat([i \in 1..Len(config) |->
           IF config[i].required
              /\ checkEqual(objectToCheck[config[i].name],
                            comparisonObject[config[i].name])
           THEN <<Err("BAD_REQ", config[i].name)>> ELSE <<>>]),
         objectToCheck)

\* ------------------------------------------------------------------------
\* Records and arrays
\* ------------------------------------------------------------------------

\* record[key] is not undefined
Has(record, key) == key \in DOMAIN record

\* record[key] = value
Put(record, key, value) == (key :> value) @@ record

\* record[key] || []
GetOrEmpty(record, key) == IF Has(record, key) THEN record[key] ELSE <<>>

\* Array.prototype.includes / Set.prototype.has over a list of values
includes(xs, v) == \E i \in 1..Len(xs) : xs[i] = v

\* Array.prototype.indexOf, 1-based; 0 for the code's -1
indexOf(xs, v) ==
  IF includes(xs, v) THEN CHOOSE i \in 1..Len(xs) :
                            xs[i] = v /\ \A j \in 1..(i-1) : xs[j] # v
  ELSE 0

\* xs.splice(i, 1) with i the 1-based index; splice(-1, 1) (here i = 0)
\* removes the last element
splice1(xs, i) ==
  IF xs = <<>> THEN xs
  ELSE LET at == IF i = 0 THEN Len(xs) ELSE i IN
       [j \in 1..(Len(xs) - 1) |-> IF j < at THEN xs[j] ELSE xs[j + 1]]

NewSet_Keep(xs) == xs

\* new Set(xs), in insertion order
RECURSIVE NewSet(_)
NewSet(xs) ==
  IF xs = <<>> THEN <<>>
  ELSE LET front == NewSet(SubSeq(xs, 1, Len(xs) - 1))
           x == xs[Len(xs)] IN
       IF includes(front, x) THEN front ELSE Append(front, x)

intersectionSet(A, B) ==
  IF Len(A) > 0 THEN SelectSeq(A, LAMBDA x : includes(B, x)) ELSE B

\* ------------------------------------------------------------------------
\* The library
\* ------------------------------------------------------------------------

Lib(bi, wi, pb, cb) ==
  [booksIndex |-> bi, wordIndex |-> wi, patronBooks |-> pb, checkBooks |-> cb]

Outcome(lib, result) == [lib |-> lib, result |-> result]

\* new LendingLibrary()
EmptyMap == [k \in {} |-> <<>>]
NewLibrary == Lib(EmptyMap, EmptyMap, EmptyMap, EmptyMap)

\* req.nCopies || 1
ncopiesOf_AlwaysOne(req) == 1

ncopiesOf(req) == IF Truthy(req.nCopies) THEN req.nCopies.n ELSE 1

RECURSIVE indexWords_Replace(_, _, _)
indexWords_Replace(wi, words, isbn) ==
  IF words = <<>> THEN wi
  ELSE indexWords_Replace(Put(wi, Head(words), <<isbn>>), Tail(words), isbn)

\* the while loop of addBook: this.wordIndex[word].push(req.isbn) per word
RECURSIVE indexWords(_, _, _)
indexWords(wi, words, isbn) ==
  IF words = <<>> THEN wi
  ELSE indexWords(Put(wi, Head(words), Append(GetOrEmpty(wi, Head(words)), isbn)),
                  Tail(words), isbn)

bookWords_TitleOnly(req) == extractWords(req.title.s)

bookWords_AuthorsOnly(req) ==
  Concat([i \in 1..Len(req.authors.a) |-> extractWords(req.authors.a[i].s)])

\* [...extractWords(req.title), ...req.authors.flatMap(extractWords)]
bookWords(req) ==
  extractWords(req.title.s)
    \o Concat([i \in 1..Len(req.authors.a) |-> extractWords(req.authors.a[i].s)])

newBook(req) ==
  [isbn |-> req.isbn, title |-> req.title, authors |-> req.authors,
   pages |-> req.pages, year |-> req.year, publisher |-> req.publisher,
   nCopies |-> ncopiesOf(req)]

addCopies_Replace(existingBook, n) == [existingBook EXCEPT !.nCopies = n]

addCopies(existingBook, n) == [existingBook EXCEPT !.nCopies = @ + n]

addBook_Overwrite(lib, req) ==
  LET requiredValidation == checkRequiredProps(req, RequiredTypeBook)
      typeValidation == checkPropsType(req, RequiredTypeBook)
      badRequestValidation == checkBadReq(req, RequiredTypeBook)
      key == ToKey(req.isbn)
  IN
  IF ~isOk(requiredValidation) THEN Outcome(lib, requiredValidation)
  ELSE IF ~isOk(typeValidation) THEN Outcome(lib, typeValidation)
  ELSE IF ~isOk(badRequestValidation) THEN Outcome(lib, badRequestValidation)
  ELSE IF Has(lib.booksIndex, key)
  THEN LET updated == [newBook(req) EXCEPT
                         !.nCopies = lib.booksIndex[key].nCopies + ncopiesOf(req)]
       IN Outcome([lib EXCEPT !.booksIndex = Put(@, key, updated)],
                  okResult(updated))
  ELSE IF req.title.t # "str" \/ req.authors.t # "arr"
  THEN Outcome(lib, Thrown)
  ELSE LET book == newBook(req) IN
       Outcome([lib EXCEPT
                  !.wordIndex = indexWords(@, bookWords(req), req.isbn),
                  !.booksIndex = Put(@, key, book)],
               okResult(book))

addBook(lib, req) ==
  LET requiredValidation == checkRequiredProps(req, RequiredTypeBook)
      typeValidation == checkPropsType(req, RequiredTypeBook)
      badRequestValidation == checkBadReq(req, RequiredTypeBook)
      key == ToKey(req.isbn)
  IN
  IF ~isOk(requiredValidation) THEN Outcome(lib, requiredValidation)
  ELSE IF ~isOk(typeValidation) THEN Outcome(lib, typeValidation)
  ELSE IF ~isOk(badRequestValidation) THEN Outcome(lib, badRequestValidation)
  ELSE IF Has(lib.booksIndex, key)
  THEN LET existingBook == lib.booksIndex[key]
           inconsistencyResult ==
             checkInconsistentProps(req, existingBook, RequiredTypeBook)
           updated == addCopies(existingBook, ncopiesOf(req))
       IN
       IF ~isOk(inconsistencyResult) THEN Outcome(lib, inconsistencyResult)
       ELSE Outcome([lib EXCEPT !.booksIndex = Put(@, key, updated)],
                    okResult(updated))
  ELSE IF req.title.t # "str" \/ req.authors.t # "arr"
  THEN Outcome(lib, Thrown)
  ELSE LET book == newBook(req) IN
       Outcome([lib EXCEPT
                  !.wordIndex = indexWords(@, bookWords(req), req.isbn),
                  !.booksIndex = Put(@, key, book)],
               okResult(book))

\* primary collation rank of a (lower-cased) character under localeCompare
CharRank(c) ==
  CASE c = " " -> 0 [] c = "_" -> 1 [] c = "-" -> 2 [] c = "0" -> 3
    [] c = "1" -> 4 [] c = "a" -> 5 [] c = "b" -> 6 [] c = "c" -> 7
    [] c = "d" -> 8 [] OTHER -> 9

\* a.localeCompare(b): negative, zero or positive
RECURSIVE localeCompare(_, _)
localeCompare(a, b) ==
  IF a = <<>> THEN (IF b = <<>> THEN 0 ELSE -1)
  ELSE IF b = <<>> THEN 1
  ELSE IF CharRank(Head(a)) < CharRank(Head(b)) THEN -1
  ELSE IF CharRank(Head(a)) > CharRank(Head(b)) THEN 1
  ELSE localeCompare(Tail(a), Tail(b))

\* the comparator handed to matchingBooks.sort
compareTitles(a, b) == localeCompare(toLowerCase(a.title.s), toLowerCase(b.title.s))

sortByTitle_None(books) == SubSeq(books, 1, Len(books))

\* Array.prototype.sort with compareTitles (a stable sort)
RECURSIVE sortByTitle(_)
sortByTitle(books) ==
  IF books = <<>> THEN <<>>
  ELSE LET front == sortByTitle(SubSeq(books, 1, Len(books) - 1))
           x == books[Len(books)]
           keep == {i \in 1..Len(front) : compareTitles(front[i], x) <= 0}
           n == Cardinality(keep)
       IN SubSeq(front, 1, n) \o <<x>> \o SubSeq(front, n + 1, Len(front))

\* the for loop of findBooks over the query's words
RECURSIVE matchWords(_, _, _)
matchWords(wi, words, matchingISBNs) ==
  IF words = <<>> THEN matchingISBNs
  ELSE matchWords(wi, Tail(words),
         intersectionSet(matchingISBNs, NewSet(GetOrEmpty(wi, Head(words)))))

emptySearch_LongerThanTwo(words) ==
  Len(words) = 0 \/ ~\E i \in 1..Len(words) : Len(words[i]) > 2

emptySearch_OnlyEmpty(words) == Len(words) = 0

\* words.length === 0 || !words.some((val) => val.length > 1)
emptySearch(words) == Len(words) = 0 \/ ~\E i \in 1..Len(words) : Len(words[i]) > 1

RECURSIVE touchWords(_, _)
touchWords(wi, words) ==
  IF words = <<>> THEN wi
  ELSE touchWords(Put(wi, Head(words), GetOrEmpty(wi, Head(words))), Tail(words))

findBooks_Entries(lib, req) ==
  LET requiredPropsError == checkRequiredProps(req, RequiredTypeFindBook)
      propsTypeError == checkPropsType(req, RequiredTypeFindBook)
      badRequestError == checkBadReq(req, RequiredTypeFindBook)
  IN
  IF ~isOk(requiredPropsError) THEN Outcome(lib, requiredPropsError)
  ELSE IF ~isOk(propsTypeError) THEN Outcome(lib, propsTypeError)
  ELSE IF ~isOk(badRequestError) THEN Outcome(lib, badRequestError)
  ELSE IF req.search.t # "str" THEN Outcome(lib, Thrown)
  ELSE LET words == extractWords(req.search.s)
           matchingISBNs == matchWords(lib.wordIndex, words, <<>>)
           matchingBooks == [i \in 1..Len(matchingISBNs) |->
                               lib.booksIndex[ToKey(matchingISBNs[i])]]
       IN
       IF emptySearch(words) THEN Outcome(lib, errResult("BAD_REQ", "search"))
       ELSE Outcome([lib EXCEPT !.wordIndex = touchWords(@, words)],
                      okResult(sortByTitle(matchingBooks)))

findBooks(lib, req) ==
  LET requiredPropsError == checkRequiredProps(req, RequiredTypeFindBook)
      propsTypeError == checkPropsType(req, RequiredTypeFindBook)
      badRequestError == checkBadReq(req, RequiredTypeFindBook)
  IN
  IF ~isOk(requiredPropsError) THEN Outcome(lib, requiredPropsError)
  ELSE IF ~isOk(propsTypeError) THEN Outcome(lib, propsTypeError)
  ELSE IF ~isOk(badRequestError) THEN Outcome(lib, badRequestError)
  ELSE IF req.search.t # "str" THEN Outcome(lib, Thrown)
  ELSE LET words == extractWords(req.search.s)
           matchingISBNs == matchWords(lib.wordIndex, words, <<>>)
           matchingBooks == [i \in 1..Len(matchingISBNs) |->
                               lib.booksIndex[ToKey(matchingISBNs[i])]]
       IN
       IF emptySearch(words) THEN Outcome(lib, errResult("BAD_REQ", "search"))
       ELSE Outcome(lib, okResult(sortByTitle(matchingBooks)))

\* the capacity check one copy too late
noCopiesAvailable_OffByOne(holders, book) == Len(holders) > book.nCopies

\* the duplicate check never firing
alreadyCheckedOut_Never(held, isbn) == FALSE

\* the two conditions of checkoutBook
noCopiesAvailable(holders, book) == Len(holders) >= book.nCopies

alreadyCheckedOut(held, isbn) == includes(held, isbn)

\* this.patronBooks[req.patronId].push(req.isbn)
pushHolding(pb, patronKey, isbn) == Put(pb, patronKey, Append(pb[patronKey], isbn))

\* the holder never recorded
pushHolder_Skipped(cb, isbnKey, patronId) == cb

\* this.checkBooks[req.isbn].push(req.patronId)
pushHolder(cb, isbnKey, patronId) == Put(cb, isbnKey, Append(cb[isbnKey], patronId))

checkoutValidated_TakesCopy(lib, req) ==
  LET isbnKey == ToKey(req.isbn)
      patronKey == ToKey(req.patronId)
  IN
  IF ~Has(lib.booksIndex, isbnKey) THEN Outcome(lib, errResult("BAD_REQ", "isbn"))
  ELSE LET book == lib.booksIndex[isbnKey]
           cb == Put(lib.checkBooks, isbnKey, GetOrEmpty(lib.checkBooks, isbnKey))
           pb == Put(lib.patronBooks, patronKey, GetOrEmpty(lib.patronBooks, patronKey))
       IN
       IF book.nCopies <= 0 \/ alreadyCheckedOut(pb[patronKey], req.isbn)
       THEN Outcome([lib EXCEPT !.checkBooks = cb, !.patronBooks = pb],
                    errResult("BAD_REQ", "isbn"))
       ELSE Outcome([lib EXCEPT
                       !.booksIndex = Put(@, isbnKey, [book EXCEPT !.nCopies = @ - 1]),
                       !.patronBooks = pushHolding(pb, patronKey, req.isbn),
                       !.checkBooks = pushHolder(cb, isbnKey, req.patronId)],
                    VOID_RESULT)

checkoutValidated_NoLookup(lib, req) ==
  LET isbnKey == ToKey(req.isbn)
      patronKey == ToKey(req.patronId)
      cb == Put(lib.checkBooks, isbnKey, GetOrEmpty(lib.checkBooks, isbnKey))
      pb == Put(lib.patronBooks, patronKey, GetOrEmpty(lib.patronBooks, patronKey))
      refused ==
        \/ alreadyCheckedOut(pb[patronKey], req.isbn)
        \/ /\ Has(lib.booksIndex, isbnKey)
           /\ noCopiesAvailable(cb[isbnKey], lib.booksIndex[isbnKey])
  IN
  IF refused
  THEN Outcome([lib EXCEPT !.checkBooks = cb, !.patronBooks = pb],
               errResult("BAD_REQ", "isbn"))
  ELSE Outcome([lib EXCEPT
                  !.patronBooks = pushHolding(pb, patronKey, req.isbn),
                  !.checkBooks = pushHolder(cb, isbnKey, req.patronId)],
               VOID_RESULT)

\* checkoutBook after its two validations
checkoutValidated(lib, req) ==
  LET isbnKey == ToKey(req.isbn)
      patronKey == ToKey(req.patronId)
  IN
  IF ~Has(lib.booksIndex, isbnKey) THEN Outcome(lib, errResult("BAD_REQ", "isbn"))
  ELSE LET book == lib.booksIndex[isbnKey]
           \* this.checkBooks[req.isbn] = this.checkBooks[req.isbn] || [];
           cb == Put(lib.checkBooks, isbnKey, GetOrEmpty(lib.checkBooks, isbnKey))
           \* this.patronBooks[req.patronId] = this.patronBooks[req.patronId] || [];
           pb == Put(lib.patronBooks, patronKey, GetOrEmpty(lib.patronBooks, patronKey))
       IN
       IF noCopiesAvailable(cb[isbnKey], book) \/ alreadyCheckedOut(pb[patronKey], req.isbn)
       THEN Outcome([lib EXCEPT !.checkBooks = cb, !.patronBooks = pb],
                    errResult("BAD_REQ", "isbn"))
       ELSE Outcome([lib EXCEPT
                       !.patronBooks = pushHolding(pb, patronKey, req.isbn),
                       !.checkBooks = pushHolder(cb, isbnKey, req.patronId)],
                    VOID_RESULT)

checkoutBook_EntriesFirst(lib, req) ==
  LET requiredPropsError == checkRequiredProps(req, RequiredTypeCheckBook)
      propsTypeError == checkPropsType(req, RequiredTypeCheckBook)
      isbnKey == ToKey(req.isbn)
      patronKey == ToKey(req.patronId)
      entered == [lib EXCEPT
        !.checkBooks = Put(@, isbnKey, GetOrEmpty(@, isbnKey)),
        !.patronBooks = Put(@, patronKey, GetOrEmpty(@, patronKey))]
  IN
  IF ~isOk(requiredPropsError) THEN Outcome(entered, requiredPropsError)
  ELSE IF ~isOk(propsTypeError) THEN Outcome(entered, propsTypeError)
  ELSE checkoutValidated(lib, req)

checkoutBook(lib, req) ==
  LET requiredPropsError == checkRequiredProps(req, RequiredTypeCheckBook)
      propsTypeError == checkPropsType(req, RequiredTypeCheckBook)
  IN
  IF ~isOk(requiredPropsError) THEN Outcome(lib, requiredPropsError)
  ELSE IF ~isOk(propsTypeError) THEN Outcome(lib, propsTypeError)
  ELSE checkoutValidated(lib, req)

\* the search of the patron's books always succeeding
bookFound_Always(held, isbn) == TRUE

\* the isbn left in the patron's list
removeHolding_Skipped(pb, patronKey, isbn) == pb

\* the holder left in the book's list
removeHolder_Skipped(cb, isbnKey, patronId) == cb

\* the for loop of returnBook over the patron's books
bookFound(held, isbn) == includes(held, isbn)

\* the two splices of returnBook
removeHolding(pb, patronKey, isbn) ==
  Put(pb, patronKey, splice1(pb[patronKey], indexOf(pb[patronKey], isbn)))

removeHolder(cb, isbnKey, patronId) ==
  IF indexOf(cb[isbnKey], patronId) # 0
  THEN Put(cb, isbnKey, splice1(cb[isbnKey], indexOf(cb[isbnKey], patronId)))
  ELSE cb

returnBook(lib, req) ==
  LET requiredPropsError == checkRequiredProps(req, RequiredTypeCheckBook)
      propsTypeError == checkPropsType(req, RequiredTypeCheckBook)
      isbnKey == ToKey(req.isbn)
      patronKey == ToKey(req.patronId)
  IN
  IF ~isOk(requiredPropsError) THEN Outcome(lib, requiredPropsError)
  ELSE IF ~isOk(propsTypeError) THEN Outcome(lib, propsTypeError)
  ELSE IF ~Has(lib.booksIndex, isbnKey) THEN Outcome(lib, errResult("BAD_REQ", "isbn"))
  ELSE IF ~Has(lib.patronBooks, patronKey)
  THEN Outcome(lib, errResult("BAD_REQ", "patronId"))
  ELSE IF ~bookFound(lib.patronBooks[patronKey], req.isbn)
  THEN Outcome(lib, errResult("BAD_REQ", "isbn"))
  \* this.checkBooks[req.isbn].indexOf on a missing entry
  ELSE IF ~Has(lib.checkBooks, isbnKey) THEN Outcome(lib, Thrown)
  ELSE Outcome([lib EXCEPT
                  !.patronBooks = removeHolding(@, patronKey, req.isbn),
                  !.checkBooks = removeHolder(@, isbnKey, req.patronId)],
               VOID_RESULT)

\* ------------------------------------------------------------------------
\* Inputs
\* ------------------------------------------------------------------------

I1 == <<"i", "1">>
I2 == <<"i", "2">>
ISBNs == {I1, I2}

P1 == <<"p", "1">>
P2 == <<"p", "2">>
Patrons == {P1, P2}

\* "Ab ab", "ab c"
TitleA == <<"A", "b", " ", "a", "b">>
TitleB == <<"a", "b", " ", "c">>
Titles == {TitleA, TitleB}
\* "Cd"
Author == <<"C", "d">>
Publisher == <<"z">>

BookReq(isbn, title, nCopies) ==
  [isbn |-> Str(isbn), title |-> Str(title), authors |-> Arr(<<Str(Author)>>),
   pages |-> Num(1), year |-> Num(1), publisher |-> Str(Publisher),
   nCopies |-> nCopies]

\* I1 is offered under either title, I2 under the second
ValidBookReqs ==
  {BookReq(b[1], b[2], n) : b \in {<<I1, TitleA>>, <<I1, TitleB>>, <<I2, TitleB>>},
                            n \in {Missing, Num(2)}}

BaseBookReq == BookReq(I1, TitleA, Missing)

\* requests the validators reject
BadBookReqs ==
  { [BaseBookReq EXCEPT !.title = Missing],
    [BaseBookReq EXCEPT !.authors = Arr(<<>>)],
    [BaseBookReq EXCEPT !.nCopies = Num(0)] }

AddBookReqs == ValidBookReqs \cup BadBookReqs

\* "ab", "AB c", "zz ab", "ab zz", "cd ab", "a b"
Queries ==
  { <<"a", "b">>, <<"A", "B", " ", "c">>, <<"z", "z", " ", "a", "b">>,
    <<"a", "b", " ", "z", "z">>, <<"c", "d", " ", "a", "b">>, <<"a", " ", "b">> }

FindBooksReqs == [search : {Str(q) : q \in Queries} \cup {Missing}]

PairReq(p, i) == [patronId |-> Str(p), isbn |-> Str(i)]

PairReqs == {PairReq(p, i) : p \in Patrons, i \in ISBNs}

\* requests the validators reject
BadPairReqs ==
  { [patronId |-> Missing, isbn |-> Str(I1)],
    [patronId |-> Str(P1), isbn |-> Num(7)] }

CheckoutBookReqs == PairReqs \cup BadPairReqs
ReturnBookReqs == PairReqs \cup BadPairReqs

\* ------------------------------------------------------------------------
\* The state machine: one action per public operation
\* ------------------------------------------------------------------------

NoReq == [patronId |-> Missing, isbn |-> Missing]

\* the callers of the library and where each stands: outside any call, or
\* inside checkoutBook between its conditions and its two pushes
Clients == {"c1", "c2"}
Idle == [at |-> "idle", req |-> NoReq]
BeforePush(req) == [at |-> "beforePush", req |-> req]

\* the library object
lib == Lib(booksIndex, wordIndex, patronBooks, checkBooks)

\* the React App after its first render: the initial values of useState
AppMounted ==
  [search |-> <<>>, books |-> <<>>, errors |-> <<>>, selectedBook |-> Null,
   links |-> [next |-> FALSE, prev |-> FALSE], pending |-> 0]

\* no handler of the web services has run
WebIdle ==
  [fn |-> "none", errors |-> <<>>, count |-> Missing, index |-> Missing,
   defaultCount |-> 1, nResults |-> 0, status |-> 0,
   envelope |-> [result |-> <<>>, next |-> Missing, prev |-> Missing]]

\* a LibraryWs client outside any call
WsIdle ==
  [at |-> "idle", method |-> "", req |-> NoReq, maxRetries |-> 0, retries |-> 0,
   attempts |-> 0, applied |-> 0, parsed |-> FALSE, response |-> Thrown,
   result |-> Thrown]

\* streak counts the calls of the latest run checkoutBook, returnBook,
\* checkoutBook, ... of successful consecutive calls with one request
nextStreak(op, req, result) ==
  IF op = "checkoutBook" /\ isOk(result)
  THEN [req |-> req, n |-> IF streak.n = 2 /\ streak.req = req THEN 3 ELSE 1]
  ELSE IF op = "returnBook" /\ isOk(result) /\ streak.n \in {1, 3} /\ streak.req = req
  THEN [req |-> req, n |-> 2]
  ELSE [req |-> NoReq, n |-> 0]

\* the copy count a request asks for
RequestedCopies(req) == IF req.nCopies.t = "missing" THEN 1 ELSE req.nCopies.n

\* added sums, per identifier, the copy counts of the successful addBook calls
nextAdded(op, req, result) ==
  IF op = "addBook" /\ isOk(result)
  THEN LET key == ToKey(req.isbn)
           before == IF key \in DOMAIN added THEN added[key] ELSE 0
       IN (key :> before + RequestedCopies(req)) @@ added
  ELSE added

ApplyLib(op, req, out) ==
  /\ booksIndex' = out.lib.booksIndex
  /\ wordIndex' = out.lib.wordIndex
  /\ patronBooks' = out.lib.patronBooks
  /\ checkBooks' = out.lib.checkBooks
  /\ last' = [op |-> op, req |-> req, result |-> out.result]
  /\ streak' = nextStreak(op, req, out.result)
  /\ added' = nextAdded(op, req, out.result)
  /\ pc' = pc

Apply(op, req, out) == ApplyLib(op, req, out) /\ UNCHANGED <<ws, ui, web>>

InitLibrary ==
  /\ booksIndex = NewLibrary.booksIndex
  /\ wordIndex = NewLibrary.wordIndex
  /\ patronBooks = NewLibrary.patronBooks
  /\ checkBooks = NewLibrary.checkBooks
  /\ last = [op |-> "new", req |-> NoReq, result |-> VOID_RESULT]
  /\ streak = [req |-> NoReq, n |-> 0]
  /\ added = [k \in {} |-> 0]
  /\ pc = [c \in Clients |-> Idle]
  /\ ws = WsIdle
  /\ ui = AppMounted

Init == InitLibrary /\ web = WebIdle

\* the call returns a result or throws
Completes(out) == out.result.kind \in {"ok", "err", "throw"}

AddBook ==
  \E req \in AddBookReqs :
    LET out == addBook(lib, req) IN
    /\ Completes(out)
    /\ isOk(out.result) => out.result.val.nCopies <= MaxCopies
    /\ Apply("addBook", req, out)

FindBooks ==
  \E req \in FindBooksReqs :
    LET out == findBooks(lib, req) IN
    /\ Completes(out)
    /\ Apply("findBooks", req, out)

CheckoutBook ==
  \E req \in CheckoutBookReqs :
    LET out == checkoutBook(lib, req) IN
    /\ Completes(out)
    /\ Apply("checkoutBook", req, out)

ReturnBook ==
  \E req \in ReturnBookReqs :
    LET out == returnBook(lib, req) IN
    /\ Completes(out)
    /\ Apply("returnBook", req, out)

Next == AddBook \/ FindBooks \/ CheckoutBook \/ ReturnBook

Spec == Init /\ [][Next]_vars

\* ------------------------------------------------------------------------
\* The catalog specification: the same operations under requests that vary
\* every book field, combine validation faults and hold short queries
\* ------------------------------------------------------------------------

MaxCatalogCopies == 3

\* "Dz"
Author2 == <<"D", "z">>

\* registrations of I1 that differ from BaseBookReq in one or two required
\* fields, and one of I2
CatalogValidBookReqs ==
  { BaseBookReq,
    [BaseBookReq EXCEPT !.nCopies = Num(2)],
    [BaseBookReq EXCEPT !.title = Str(TitleB)],
    [BaseBookReq EXCEPT !.authors = Arr(<<Str(Author), Str(Author2)>>)],
    [BaseBookReq EXCEPT !.authors = Arr(<<Str(Author2), Str(Author)>>)],
    [BaseBookReq EXCEPT !.pages = Num(2)],
    [BaseBookReq EXCEPT !.year = Num(2), !.publisher = Str(<<"y">>)],
    BookReq(I2, TitleB, Missing) }

\* requests the validators reject, alone and in combination
CatalogBadBookReqs ==
  { [BaseBookReq EXCEPT !.title = Missing],
    [BaseBookReq EXCEPT !.title = Missing, !.pages = Missing],
    [BaseBookReq EXCEPT !.isbn = Missing, !.authors = Str(Author), !.pages = Num(0)],
    [BaseBookReq EXCEPT !.authors = Arr(<<>>)],
    [BaseBookReq EXCEPT !.pages = Str(<<"1">>), !.year = Num(0)],
    [BaseBookReq EXCEPT !.pages = Frac(-1)],
    [BaseBookReq EXCEPT !.nCopies = Num(0)] }

\* requests with a required field given as null
CatalogNullBookReqs ==
  { [BaseBookReq EXCEPT !.pages = Null],
    [BaseBookReq EXCEPT !.title = Null] }

CatalogAddBookReqs ==
  CatalogValidBookReqs \cup CatalogBadBookReqs \cup CatalogNullBookReqs

\* "ab", "c", "zz", "AB c", "zz ab", "a b", " ", "-"
CatalogQueries ==
  { <<"a", "b">>, <<"c">>, <<"z", "z">>, <<"A", "B", " ", "c">>,
    <<"z", "z", " ", "a", "b">>, <<"a", " ", "b">>, <<" ">>, <<"-">> }

CatalogFindBooksReqs ==
  [search : {Str(q) : q \in CatalogQueries} \cup {Missing, Num(7)}]

CatalogPairReqs ==
  { PairReq(P1, I1),
    [patronId |-> Missing, isbn |-> Str(I1)],
    [patronId |-> Missing, isbn |-> Missing],
    [patronId |-> Str(P1), isbn |-> Num(7)],
    [patronId |-> Str(P1), isbn |-> Null] }

CatalogAddBook ==
  \E req \in CatalogAddBookReqs :
    LET out == addBook(lib, req) IN
    /\ Completes(out)
    /\ isOk(out.result) => out.result.val.nCopies <= MaxCatalogCopies
    /\ Apply("addBook", req, out)

CatalogFindBooks ==
  \E req \in CatalogFindBooksReqs :
    LET out == findBooks(lib, req) IN
    /\ Completes(out)
    /\ Apply("findBooks", req, out)

CatalogCheckoutBook ==
  \E req \in CatalogPairReqs :
    LET out == checkoutBook(lib, req) IN
    /\ Completes(out)
    /\ Apply("checkoutBook", req, out)

CatalogReturnBook ==
  \E req \in CatalogPairReqs :
    LET out == returnBook(lib, req) IN
    /\ Completes(out)
    /\ Apply("returnBook", req, out)

NextCatalog ==
  CatalogAddBook \/ CatalogFindBooks \/ CatalogCheckoutBook \/ CatalogReturnBook

SpecCatalog == Init /\ [][NextCatalog]_vars

\* ------------------------------------------------------------------------
\* The clients specification: two callers of one library. A call runs up to
\* its next suspension point in one step; the methods of the library are
\* synchronous, so each call is one step.
\* ------------------------------------------------------------------------

awaitsBeforePush_Yes == TRUE

\* checkoutBook holds no await between its conditions and its pushes
awaitsBeforePush == FALSE

ClientBookReqs == {BookReq(I1, TitleA, Missing), BookReq(I2, TitleB, Missing)}

\* lines 219-220 alone: both ledger entries exist
checkoutEntries(l, req) ==
  [l EXCEPT
     !.checkBooks = Put(@, ToKey(req.isbn), GetOrEmpty(@, ToKey(req.isbn))),
     !.patronBooks = Put(@, ToKey(req.patronId), GetOrEmpty(@, ToKey(req.patronId)))]

\* the two pushes of checkoutBook alone
checkoutPushes(l, req) ==
  [l EXCEPT
     !.patronBooks = pushHolding(@, ToKey(req.patronId), req.isbn),
     !.checkBooks = pushHolder(@, ToKey(req.isbn), req.patronId)]

\* the library and the caller's position become l and at; no call completes
Suspend(c, l, at) ==
  /\ booksIndex' = l.booksIndex
  /\ wordIndex' = l.wordIndex
  /\ patronBooks' = l.patronBooks
  /\ checkBooks' = l.checkBooks
  /\ pc' = [pc EXCEPT ![c] = at]
  /\ UNCHANGED <<last, streak, added, ws, ui, web>>

\* the caller's checkoutBook completes after a suspension
Resume(c, l, req) ==
  /\ booksIndex' = l.booksIndex
  /\ wordIndex' = l.wordIndex
  /\ patronBooks' = l.patronBooks
  /\ checkBooks' = l.checkBooks
  /\ pc' = [pc EXCEPT ![c] = Idle]
  /\ last' = [op |-> "checkoutBook", req |-> req, result |-> VOID_RESULT]
  /\ streak' = nextStreak("checkoutBook", req, VOID_RESULT)
  /\ UNCHANGED <<added, ws, ui, web>>

ClientAddBook ==
  \E c \in Clients, req \in ClientBookReqs :
    LET out == addBook(lib, req) IN
    /\ pc[c] = Idle
    /\ isOk(out.result) => out.result.val.nCopies <= MaxCopies
    /\ Apply("addBook", req, out)

ClientCheckoutBook ==
  \E c \in Clients :
    IF pc[c] = Idle
    THEN \E req \in PairReqs :
           LET out == checkoutBook(lib, req) IN
           IF awaitsBeforePush /\ isOk(out.result)
           THEN Suspend(c, checkoutEntries(lib, req), BeforePush(req))
           ELSE Apply("checkoutBook", req, out)
    ELSE Resume(c, checkoutPushes(lib, pc[c].req), pc[c].req)

ClientReturnBook ==
  \E c \in Clients, req \in PairReqs :
    LET out == returnBook(lib, req) IN
    /\ pc[c] = Idle
    /\ Completes(out)
    /\ Apply("returnBook", req, out)

NextClients == ClientAddBook \/ ClientCheckoutBook \/ ClientReturnBook

SpecClients == Init /\ [][NextClients]_vars

\* ------------------------------------------------------------------------
\* The web-service client specification: one LibraryWs client whose PUT and
\* DELETE requests to /api/lendings are served by the library. An attempt
\* of fetchAPI is one step; what the network does to it is the
\* environment's choice.
\* ------------------------------------------------------------------------

\* maxRetries: number = 3
DefaultMaxRetries == 3

WsBookReqs == {BookReq(I1, TitleA, Missing)}
WsLends == {PairReq(P1, I1), PairReq(P2, I1)}

\* what becomes of one attempt: the request never reaches the server and
\* fetch rejects; the server handles it and fetch rejects; the server
\* handles it and response.json() rejects; the response is parsed
FetchOutcomes == {"unsent", "lost", "unparsable", "parsed"}

\* the server's handler of /api/lendings
serve(l, method, req) ==
  IF method = "PUT" THEN checkoutBook(l, req) ELSE returnBook(l, req)

\* fetchAPI up to its first await
fetchAPI(method, req, maxRetries) ==
  LET w == [WsIdle EXCEPT !.method = method, !.req = req, !.maxRetries = maxRetries] IN
  IF 0 < maxRetries
  THEN [w EXCEPT !.at = "fetch"]
  ELSE [w EXCEPT !.at = "done", !.result = errResult("UNKNOWN", "")]

retriesExhausted_OneMore(retries, maxRetries) == retries > maxRetries

\* if (retries === maxRetries)
retriesExhausted(retries, maxRetries) == retries = maxRetries

\* the catch block of fetchAPI
afterThrow(w) ==
  LET retries == w.retries + 1 IN
  IF retriesExhausted(retries, w.maxRetries)
  THEN [w EXCEPT !.retries = retries, !.at = "done",
                 !.result = errResult("UNKNOWN", "")]
  ELSE [w EXCEPT !.retries = retries, !.at = "sleep"]

\* the try block of fetchAPI after response.json()
afterResponse(w, responseData) ==
  [w EXCEPT !.at = "done", !.parsed = TRUE, !.response = responseData,
            !.result = IF isOk(responseData) THEN VOID_RESULT
                       ELSE ErrResult(responseData.errors)]

\* the server registers a book
WsAddBook ==
  \E req \in WsBookReqs :
    LET out == addBook(lib, req) IN
    /\ isOk(out.result) => out.result.val.nCopies <= MaxCopies
    /\ Apply("addBook", req, out)

\* LibraryWs.checkoutBook(lend)
WsCheckoutBook ==
  \E lend \in WsLends, maxRetries \in 0..DefaultMaxRetries :
    /\ ws.at \in {"idle", "done"}
    /\ ws' = fetchAPI("PUT", lend, maxRetries)
    /\ UNCHANGED <<libraryVars, ui, web>>

\* LibraryWs.returnBook(lend)
WsReturnBook ==
  \E lend \in WsLends, maxRetries \in 0..DefaultMaxRetries :
    /\ ws.at \in {"idle", "done"}
    /\ ws' = fetchAPI("DELETE", lend, maxRetries)
    /\ UNCHANGED <<libraryVars, ui, web>>

\* one pass of the loop of fetchAPI: fetch, response.json(), return or catch
WsAttempt ==
  /\ ws.at = "fetch"
  /\ \E how \in FetchOutcomes :
       LET w == [ws EXCEPT !.attempts = @ + 1] IN
       IF how = "unsent"
       THEN /\ ws' = afterThrow(w)
            /\ UNCHANGED <<libraryVars, ui, web>>
       ELSE LET op == IF ws.method = "PUT" THEN "checkoutBook" ELSE "returnBook"
                out == serve(lib, ws.method, ws.req)
                served == [w EXCEPT !.applied = IF isOk(out.result) THEN @ + 1 ELSE @]
            IN /\ ApplyLib(op, ws.req, out)
               /\ UNCHANGED <<ui, web>>
               /\ ws' = IF how = "parsed" THEN afterResponse(served, out.result)
                        ELSE afterThrow(served)

\* the one-second wait before the next attempt is over
WsRetry ==
  /\ ws.at = "sleep"
  /\ ws' = [ws EXCEPT !.at = "fetch"]
  /\ UNCHANGED <<libraryVars, ui, web>>

NextWs == WsAddBook \/ WsCheckoutBook \/ WsReturnBook \/ WsAttempt \/ WsRetry

SpecWs == Init /\ [][NextWs]_vars

\* every fetch settles and every timer fires
SpecWsFair == SpecWs /\ WF_vars(WsAttempt) /\ WF_vars(WsRetry)

\* ------------------------------------------------------------------------
\* The App specification: the React component's state under its event
\* handlers. A handler runs up to its await in one step; a pending
\* searchBooks call resumes in a later step with whatever the server sent.
\* ------------------------------------------------------------------------

\* searchBooks calls in flight at one time
MaxPending == 2

AppSearches == {<<>>, <<" ">>, <<"a", "b">>}

\* the paged envelopes the server may answer with
AppPages ==
  {[result |-> <<>>, links |-> [next |-> FALSE, prev |-> FALSE]],
   [result |-> <<Str(I1)>>, links |-> [next |-> TRUE, prev |-> FALSE]],
   [result |-> <<Str(I2)>>, links |-> [next |-> FALSE, prev |-> TRUE]],
   [result |-> <<Str(I1), Str(I2)>>, links |-> [next |-> FALSE, prev |-> FALSE]]}

EmptySearchMessage == <<"empty">>
ServerMessages == <<"server">>
ThrownMessage == <<"thrown">>

\* one more searchBooks call may be in flight
MayCallSearchBooks(u) == u.pending < MaxPending

\* handleSearchBlur up to its return or its await
handleSearchBlur(u) ==
  LET cleared == [u EXCEPT !.errors = <<>>, !.books = <<>>, !.selectedBook = Null] IN
  IF TrimIsEmpty(u.search)
  THEN [cleared EXCEPT !.errors = EmptySearchMessage]
  ELSE [cleared EXCEPT !.pending = @ + 1]

handleDetailsClick(u, book) == [u EXCEPT !.books = <<>>, !.selectedBook = book]

\* handleScroll up to its await
handleScroll(u) == [u EXCEPT !.errors = <<>>, !.pending = @ + 1]

\* searchBooks after its await: the result is a page, errors, or an exception
searchBooks(u, answer) ==
  LET resumed == [u EXCEPT !.pending = @ - 1] IN
  IF answer.kind = "ok"
  THEN [resumed EXCEPT !.books = answer.val.result, !.links = answer.val.links]
  ELSE IF answer.kind = "err"
  THEN [resumed EXCEPT !.errors = answer.errors]
  ELSE [resumed EXCEPT !.errors = ThrownMessage]

AppAnswers ==
  {okResult(page) : page \in AppPages} \cup {ErrResult(ServerMessages), Thrown}

\* onChange of the search input
AppChange ==
  \E text \in AppSearches :
    /\ ui' = [ui EXCEPT !.search = text]
    /\ UNCHANGED <<libraryVars, ws, web>>

\* onBlur of the search input
AppSearchBlur ==
  /\ TrimIsEmpty(ui.search) \/ MayCallSearchBooks(ui)
  /\ ui' = handleSearchBlur(ui)
  /\ UNCHANGED <<libraryVars, ws, web>>

\* a click on the details link of a listed book
AppDetailsClick ==
  \E i \in 1..Len(ui.books) :
    /\ ui' = handleDetailsClick(ui, ui.books[i])
    /\ UNCHANGED <<libraryVars, ws, web>>

\* a click on a scroll link, shown while the list is shown
AppScroll ==
  /\ ui.books # <<>>
  /\ ui.links.next \/ ui.links.prev
  /\ MayCallSearchBooks(ui)
  /\ ui' = handleScroll(ui)
  /\ UNCHANGED <<libraryVars, ws, web>>

\* a pending searchBooks call resumes
AppSearchDone ==
  \E answer \in AppAnswers :
    /\ ui.pending > 0
    /\ ui' = searchBooks(ui, answer)
    /\ UNCHANGED <<libraryVars, ws, web>>

NextApp == AppChange \/ AppSearchBlur \/ AppDetailsClick \/ AppScroll \/ AppSearchDone

SpecApp == Init /\ [][NextApp]_vars

\* ------------------------------------------------------------------------
\* The web-services specification: the pure helpers of the HTTP layer,
\* each applied once to an input drawn at the start.
\* ------------------------------------------------------------------------

\* constants of the http-status package named by ERROR_MAP
CONFLICT == 409
NOT_FOUND == 404
BAD_REQUEST == 400
UNAUTHORIZED == 401
INTERNAL_SERVER_ERROR == 500

\* longest list of errors, largest count and index of a request
MaxErrors == 3
MaxCount == 2
MaxIndex == 3

ERROR_MAP ==
  [code \in {"EXISTS", "NOT_FOUND", "BAD_REQ", "AUTH", "DB", "INTERNAL"} |->
     CASE code = "EXISTS" -> CONFLICT
       [] code = "NOT_FOUND" -> NOT_FOUND
       [] code = "BAD_REQ" -> BAD_REQUEST
       [] code = "AUTH" -> UNAUTHORIZED
       [] code = "DB" -> INTERNAL_SERVER_ERROR
       [] code = "INTERNAL" -> INTERNAL_SERVER_ERROR]

\* new Errors.Err(message, options) with and without options.code
ErrWithCode(code) == [options |-> [code |-> code]]
ErrWithoutCode == [options |-> [k \in {} |-> ""]]

\* errStatus > 0: an unmapped code gives undefined, no code gives -1
errStatusPositive(err) ==
  /\ Has(err.options, "code")
  /\ Has(ERROR_MAP, err.options.code)
  /\ ERROR_MAP[err.options.code] > 0

\* errStatus === STATUS.INTERNAL_SERVER_ERROR
errStatusInternal(err) ==
  /\ Has(err.options, "code")
  /\ Has(ERROR_MAP, err.options.code)
  /\ ERROR_MAP[err.options.code] = INTERNAL_SERVER_ERROR

firstStatusKept_No(status) == TRUE

\* status === 0
firstStatusKept(status) == status = 0

\* the loop of getHttpStatus from status on
RECURSIVE getHttpStatusFrom(_, _)
getHttpStatusFrom(errors, status) ==
  IF errors = <<>> THEN status
  ELSE LET err == Head(errors)
           first == IF errStatusPositive(err) /\ firstStatusKept(status)
                    THEN ERROR_MAP[err.options.code] ELSE status
           next == IF errStatusInternal(err) THEN INTERNAL_SERVER_ERROR ELSE first
       IN getHttpStatusFrom(Tail(errors), next)

getHttpStatus(errors) ==
  LET status == getHttpStatusFrom(errors, 0) IN
  IF status # 0 THEN status ELSE BAD_REQUEST

DigitChars == <<"0", "1", "2", "3", "4", "5", "6", "7", "8", "9">>

\* String(n) of a natural number
RECURSIVE NumberToString(_)
NumberToString(n) ==
  IF n < 10 THEN <<DigitChars[n + 1]>>
  ELSE NumberToString(n \div 10) \o <<DigitChars[(n % 10) + 1]>>

\* Number(s) of a string of digits; Number('') is 0
RECURSIVE StringToNumber(_)
StringToNumber(cs) ==
  IF cs = <<>> THEN 0
  ELSE LET d == CHOOSE k \in 0..9 : DigitChars[k + 1] = cs[Len(cs)]
       IN 10 * StringToNumber(SubSeq(cs, 1, Len(cs) - 1)) + d

\* Number(v ?? dflt)
NumberOr(v, dflt) == IF v.t = "missing" THEN dflt ELSE StringToNumber(v.s)

\* v ? Number(v) : dflt
NumberIfTruthy(v, dflt) ==
  IF v.t = "missing" \/ v.s = <<>> THEN dflt ELSE StringToNumber(v.s)

\* const count = req.query.count ? Number(req.query.count) : DEFAULT_COUNT
pagedCount(q) == NumberIfTruthy(q.count, q.defaultCount)

\* the index and count parameters of the link pageLink returns, or undefined
pageLink(q, nResults, dir) ==
  LET count == NumberOr(q.count, q.defaultCount)
      index0 == NumberOr(q.index, 0)
  IN
  IF (IF dir > 0 THEN nResults <= count ELSE index0 <= 0) THEN Missing
  ELSE LET index == IF dir > 0 THEN index0 + count
                    ELSE IF count > index0 THEN 0 ELSE index0 - count
       IN [t |-> "link", index |-> NumberToString(index), count |-> NumberToString(count)]

\* results.slice(0, count) for count >= 0
slice(results, count) ==
  SubSeq(results, 1, IF count < Len(results) THEN count ELSE Len(results))

\* the next and prev links and the page of the envelope pagedResult returns
pagedResult(q, results) ==
  [result |-> slice(results, pagedCount(q)),
   next |-> pageLink(q, Len(results), 1),
   prev |-> pageLink(q, Len(results), -1)]

WebErrs ==
  {ErrWithCode(code) : code \in DOMAIN ERROR_MAP \cup {"UNKNOWN"}} \cup {ErrWithoutCode}

WebErrorLists == UNION {[1..n -> WebErrs] : n \in 0..MaxErrors}

WebCounts == {Missing, Str(<<>>)} \cup {Str(NumberToString(k)) : k \in 0..MaxCount}
WebIndexes == {Missing, Str(<<>>)} \cup {Str(NumberToString(k)) : k \in 0..MaxIndex}

\* the lists of errors, and the requests with the number of results that
\* findBooks, asked for count + 1 of them, returned
WebInputs ==
  {[WebIdle EXCEPT !.fn = "errors", !.errors = errors] : errors \in WebErrorLists}
  \cup
  {[WebIdle EXCEPT !.fn = "query", !.count = q[1], !.index = q[2],
                   !.defaultCount = q[3], !.nResults = n] :
     q \in WebCounts \X WebIndexes \X (1..MaxCount), n \in 0..(MaxCount + 1)}

InitWeb ==
  /\ InitLibrary
  /\ web \in WebInputs
  /\ web.fn = "query" => web.nResults <= NumberOr(web.count, web.defaultCount) + 1

\* mapResultErrors asks for the status of a list of errors
WebGetHttpStatus ==
  /\ web.fn = "errors"
  /\ web' = [web EXCEPT !.fn = "getHttpStatus", !.status = getHttpStatus(web.errors)]
  /\ UNCHANGED <<libraryVars, ws, ui>>

\* the findBooks handler wraps its results
WebPagedResult ==
  /\ web.fn = "query"
  /\ web' = [web EXCEPT !.fn = "pagedResult",
                        !.envelope = pagedResult(web, [k \in 1..web.nResults |-> k])]
  /\ UNCHANGED <<libraryVars, ws, ui>>

NextWeb == WebGetHttpStatus \/ WebPagedResult

SpecWeb == InitWeb /\ [][NextWeb]_vars

\* ------------------------------------------------------------------------
\* The ledger, as the claims read it
\* ------------------------------------------------------------------------

\* the patrons listed as holding isbn key i, the isbns listed as held by p
holders(i) == GetOrEmpty(checkBooks, i)
holdings(p) == GetOrEmpty(patronBooks, p)

Elements(xs) == {xs[j] : j \in 1..Len(xs)}

PatronKeys ==
  Patrons \cup DOMAIN patronBooks
    \cup UNION {{ToKey(v) : v \in Elements(checkBooks[i])} : i \in DOMAIN checkBooks}

IsbnKeys ==
  ISBNs \cup DOMAIN checkBooks \cup DOMAIN booksIndex
    \cup UNION {{ToKey(v) : v \in Elements(patronBooks[p])} : p \in DOMAIN patronBooks}

\* p is listed among the holders of i (checkBooks)
IsHolder(p, i) == includes(holders(i), Str(p))

\* i is listed among the holdings of p (patronBooks)
Holds(p, i) == includes(holdings(p), Str(i))

NoDuplicates(xs) == \A j, k \in 1..Len(xs) : xs[j] = xs[k] => j = k

StringPair(req) == req.patronId.t = "str" /\ req.isbn.t = "str"

\* ------------------------------------------------------------------------
\* Claims
\* ------------------------------------------------------------------------

\* C1: in every reachable state, every book of the catalog has at most as
\* many current holders as its stored copy count.
C1_HoldersWithinCopies ==
  \A i \in DOMAIN booksIndex : Len(holders(i)) <= booksIndex[i].nCopies

\* C1 witness: a checkout was refused at a book whose MaxCopies copies are
\* all held.
C1_Witness ==
  /\ last.op = "checkoutBook" /\ StringPair(last.req) /\ isErr(last.result)
  /\ Has(booksIndex, last.req.isbn.s)
  /\ booksIndex[last.req.isbn.s].nCopies = MaxCopies
  /\ Len(holders(last.req.isbn.s)) = MaxCopies

C4_ResultMatchesEveryWord ==
  (last.op = "findBooks" /\ isOk(last.result)
     /\ Len(extractWords(last.req.search.s)) > 1)
  => \A j \in 1..Len(last.result.val) :
       \A w \in Elements(extractWords(last.req.search.s)) :
         includes(GetOrEmpty(wordIndex, w), last.result.val[j].isbn)

\* C5: a call that returns an error result leaves the catalog, the word
\* index and both ledger mappings exactly as they were.
C5_ErrorLeavesStateUnchanged ==
  [][isErr(last'.result)
       => UNCHANGED <<booksIndex, wordIndex, patronBooks, checkBooks>>]_vars

\* the step just taken was a call of op with a request of two strings
Called(op) == last'.op = op /\ StringPair(last'.req)

\* the patron and isbn of the request of the step just taken
reqPatron == last'.req.patronId.s
reqIsbn == last'.req.isbn.s

\* C6: a checkoutBook for a known book whose holders already number its copy
\* count fails with BAD_REQ and leaves both ledger mappings unchanged.
C6_FullBookCheckoutRejected ==
  [][(Called("checkoutBook") /\ Has(booksIndex, reqIsbn)
        /\ Len(holders(reqIsbn)) = booksIndex[reqIsbn].nCopies)
       => (HasCode(last'.result, "BAD_REQ")
             /\ UNCHANGED <<patronBooks, checkBooks>>)]_vars

\* C7: a returnBook for a pair that is not checked out (the patron has no
\* holdings, or the isbn is not among them) fails with BAD_REQ and leaves
\* both ledger mappings unchanged.
C7_ReturnOfNotCheckedOutRejected ==
  [][(Called("returnBook") /\ ~Holds(reqPatron, reqIsbn))
       => (HasCode(last'.result, "BAD_REQ")
             /\ UNCHANGED <<patronBooks, checkBooks>>)]_vars

\* C7 witness: a patron who holds one book of the catalog was refused the
\* return of another book of the catalog.
C7_Witness ==
  /\ last.op = "returnBook" /\ StringPair(last.req)
  /\ HasCode(last.result, "BAD_REQ")
  /\ Has(booksIndex, last.req.isbn.s)
  /\ ~Holds(last.req.patronId.s, last.req.isbn.s)
  /\ holdings(last.req.patronId.s) # <<>>

\* C8: a pair changes from not checked out to checked out only by a
\* successful checkoutBook of that pair, and back only by a successful
\* returnBook of that pair; checkoutBook of a checked-out pair and returnBook
\* of a pair not checked out return BAD_REQ.
C8_PairTransitions ==
  [][\A p \in Patrons, i \in ISBNs :
       /\ (~Holds(p, i) /\ Holds(p, i)')
            => (last'.op = "checkoutBook" /\ last'.req = PairReq(p, i)
                  /\ isOk(last'.result))
       /\ (Holds(p, i) /\ ~Holds(p, i)')
            => (last'.op = "returnBook" /\ last'.req = PairReq(p, i)
                  /\ isOk(last'.result))
       /\ (last'.op = "checkoutBook" /\ last'.req = PairReq(p, i) /\ Holds(p, i))
            => (HasCode(last'.result, "BAD_REQ") /\ Holds(p, i)')
       /\ (last'.op = "returnBook" /\ last'.req = PairReq(p, i) /\ ~Holds(p, i))
            => (HasCode(last'.result, "BAD_REQ") /\ ~Holds(p, i)')]_vars

\* C8 witness: a patron holding two books asked for one of them again, and
\* the call returned BAD_REQ and left the pair checked out.
C8_Witness ==
  /\ last.op = "checkoutBook" /\ StringPair(last.req)
  /\ HasCode(last.result, "BAD_REQ")
  /\ Holds(last.req.patronId.s, last.req.isbn.s)
  /\ IsHolder(last.req.patronId.s, last.req.isbn.s)
  /\ Len(holdings(last.req.patronId.s)) = 2

\* a known book with a free copy, not held by the patron
CanCheckOut(p, i) ==
  /\ Has(booksIndex, i)
  /\ Len(holders(i)) < booksIndex[i].nCopies
  /\ ~Holds(p, i)

\* C9: checkoutBook of a known book with a free copy succeeds, the returnBook
\* of the same pair that follows it succeeds, and the checkoutBook of the
\* same pair that follows that succeeds.
C9_CheckoutReturnCheckout ==
  [][/\ (Called("checkoutBook") /\ CanCheckOut(reqPatron, reqIsbn))
          => isOk(last'.result)
     /\ (Called("returnBook") /\ streak.n \in {1, 3} /\ last'.req = streak.req)
          => isOk(last'.result)
     /\ (Called("checkoutBook") /\ streak.n = 2 /\ last'.req = streak.req)
          => isOk(last'.result)]_vars

\* C9 witness: checkoutBook, returnBook, checkoutBook of one pair have
\* succeeded in a row, on a book with a single copy.
C9_Witness ==
  /\ streak.n = 3
  /\ last.op = "checkoutBook" /\ isOk(last.result) /\ last.req = streak.req
  /\ booksIndex[last.req.isbn.s].nCopies = 1

\* C10: a checkoutBook with string isbn and patronId succeeds if and only if
\* the isbn is in the catalog, its holders number fewer than its copy count
\* and the patron does not hold it; on success exactly that pair is added to
\* both ledger mappings and every other pair is unchanged.
C10_CheckoutSucceedsIff ==
  [][Called("checkoutBook")
       => /\ isOk(last'.result) <=> CanCheckOut(reqPatron, reqIsbn)
          /\ isOk(last'.result)
               => \A p \in PatronKeys', i \in IsbnKeys' :
                    /\ Holds(p, i)' <=> (Holds(p, i) \/ (p = reqPatron /\ i = reqIsbn))
                    /\ IsHolder(p, i)' <=> (IsHolder(p, i) \/ (p = reqPatron /\ i = reqIsbn))
                    /\ Len(holdings(p))' =
                         Len(holdings(p)) + (IF p = reqPatron THEN 1 ELSE 0)
                    /\ Len(holders(i))' =
                         Len(holders(i)) + (IF i = reqIsbn THEN 1 ELSE 0)]_vars

\* C10 witness: a checkout has succeeded for a book another patron holds too,
\* by a patron who holds another book too.
C10_Witness ==
  /\ last.op = "checkoutBook" /\ StringPair(last.req) /\ isOk(last.result)
  /\ \E p \in Patrons : p # last.req.patronId.s /\ Holds(p, last.req.isbn.s)
  /\ \E i \in ISBNs : i # last.req.isbn.s /\ Holds(last.req.patronId.s, i)

RequiredBookFields == {"isbn", "title", "authors", "pages", "year", "publisher"}

\* the request passes the three validators of addBook
WellFormedBook(req) ==
  /\ isOk(checkRequiredProps(req, RequiredTypeBook))
  /\ isOk(checkPropsType(req, RequiredTypeBook))
  /\ isOk(checkBadReq(req, RequiredTypeBook))

\* the required fields in which a request differs from the stored record
InconsistentFields(req) ==
  {f \in RequiredBookFields :
     LET stored == booksIndex[req.isbn.s][f] IN
     req[f].t # stored.t \/ req[f] # stored}

\* an addBook call for an identifier the catalog holds
Reregisters == last'.op = "addBook" /\ WellFormedBook(last'.req)
                 /\ Has(booksIndex, last'.req.isbn.s)

\* C12: addBook for a stored identifier with all required fields equal adds
\* exactly the request's copy count to the stored count and changes no other
\* field, no other record and no word-index entry.
C12_ReregistrationAddsCopies ==
  [][(Reregisters /\ InconsistentFields(last'.req) = {})
       => LET key == last'.req.isbn.s IN
          /\ isOk(last'.result)
          /\ booksIndex' = [booksIndex EXCEPT
               ![key] = [@ EXCEPT !.nCopies = @ + RequestedCopies(last'.req)]]
          /\ last'.result.val = booksIndex'[key]
          /\ UNCHANGED <<wordIndex, patronBooks, checkBooks>>]_vars

\* C12 witness: a stored single copy of I1 was registered again with a copy
\* count of two while I2 is in the catalog.
C12_Witness ==
  /\ last.op = "addBook" /\ isOk(last.result)
  /\ last.req.nCopies = Num(2) /\ last.req.isbn = Str(I1)
  /\ Has(booksIndex, I1) /\ booksIndex[I1].nCopies = 3
  /\ Has(booksIndex, I2)

\* the widgets an error result names
Widgets(result) == {result.errors[i].widget : i \in 1..Len(result.errors)}

\* C13: addBook for a stored identifier with a differing required field
\* fails with one BAD_REQ per inconsistent field, naming it, and leaves the
\* catalog, the word index and the ledger unchanged.
C13_InconsistentReregistrationRejected ==
  [][(Reregisters /\ InconsistentFields(last'.req) # {})
       => /\ OnlyCode(last'.result, "BAD_REQ")
          /\ Widgets(last'.result) = InconsistentFields(last'.req)
          /\ Len(last'.result.errors) = Cardinality(InconsistentFields(last'.req))
          /\ UNCHANGED <<booksIndex, wordIndex, patronBooks, checkBooks>>]_vars

\* C13 witness: a re-registration was rejected because it gives the two
\* stored authors in the other order.
C13_Witness ==
  /\ last.op = "addBook" /\ isErr(last.result) /\ Has(booksIndex, I1)
  /\ Widgets(last.result) = {"authors"}
  /\ Len(last.req.authors.a) = 2
  /\ Len(booksIndex[I1].authors.a) = 2

\* a re-registration was rejected for two differing fields at once
C13_TwoFieldsNamed ==
  /\ last.op = "addBook" /\ isErr(last.result) /\ Has(booksIndex, I1)
  /\ Widgets(last.result) = {"year", "publisher"}

\* the result of findBooks for a query of the one word w
wordQuery(w) == findBooks(lib, [search |-> Str(w)]).result

\* a one-word query for w succeeds and its result holds the stored book i
FoundByWord(i, w) ==
  /\ isOk(wordQuery(w))
  /\ includes(wordQuery(w).val, booksIndex[i])

\* C14 as stated: in every state, each registered book is found by a query
\* of any one word of its title.
C14_AnyTitleWordFindsBook ==
  \A i \in DOMAIN booksIndex :
    \A w \in Elements(extractWords(booksIndex[i].title.s)) : FoundByWord(i, w)

\* C14 amended: in every state after a registration, each registered book is
\* found by a query of any one word of its title longer than one character.
C14_LongTitleWordFindsBook ==
  \A i \in DOMAIN booksIndex :
    \A w \in Elements(extractWords(booksIndex[i].title.s)) :
      Len(w) > 1 => FoundByWord(i, w)

\* C14 witness: two books share a title word, and a call other than addBook
\* happened after their registration.
C14_Witness ==
  /\ DOMAIN booksIndex = {I1, I2}
  /\ last.op = "checkoutBook" /\ isOk(last.result)
  /\ FoundByWord(I1, <<"a", "b">>) /\ FoundByWord(I2, <<"a", "b">>)

\* the words of a stored book's title and authors
TextWords(book) ==
  Elements(extractWords(book.title.s))
    \cup UNION {Elements(extractWords(book.authors.a[j].s)) :
                  j \in 1..Len(book.authors.a)}

\* a findBooks call on a string, and the tokens of that string
Searched == last'.op = "findBooks" /\ last'.req.search.t = "str"
searchWords == extractWords(last'.req.search.s)
LongWords(words) == {w \in Elements(words) : Len(w) > 1}

\* C15: a query of one word longer than one character that occurs in no
\* registered title or author returns success with the empty list.
C15_UnknownWordFindsNothing ==
  [][(/\ Searched
      /\ Len(searchWords) = 1 /\ Len(searchWords[1]) > 1
      /\ \A i \in DOMAIN booksIndex : searchWords[1] \notin TextWords(booksIndex[i]))
       => last'.result = okResult(<<>>)]_vars

\* C15 witness: with both books registered the query "zz" returned the
\* empty list.
C15_Witness ==
  /\ last.op = "findBooks" /\ last.req.search = Str(<<"z", "z">>)
  /\ DOMAIN booksIndex = {I1, I2}
  /\ last.result = okResult(<<>>)

\* C16: findBooks on a string without a token longer than one character
\* fails with BAD_REQ on the search field, returns no books and changes
\* nothing.
C16_NoLongTokenRejected ==
  [][(Searched /\ LongWords(searchWords) = {})
       => /\ OnlyCode(last'.result, "BAD_REQ")
          /\ Widgets(last'.result) = {"search"}
          /\ UNCHANGED <<booksIndex, wordIndex, patronBooks, checkBooks>>]_vars

\* C16 witness: the query "c" was rejected although a registered title
\* holds the word "c".
C16_Witness ==
  /\ last.op = "findBooks" /\ last.req.search = Str(<<"c">>)
  /\ OnlyCode(last.result, "BAD_REQ")
  /\ \E i \in DOMAIN booksIndex : <<"c">> \in TextWords(booksIndex[i])

\* a query of single-character fragments only was rejected
C16_FragmentsRejected ==
  /\ last.op = "findBooks" /\ last.req.search = Str(<<"a", " ", "b">>)
  /\ OnlyCode(last.result, "BAD_REQ")
  /\ DOMAIN booksIndex # {}

\* C17: findBooks returns every registered book whose title and authors
\* hold all the words of the query longer than one character; shorter
\* fragments of the query do not restrict the result.
C17_FragmentsDoNotRestrict ==
  [][(Searched /\ LongWords(searchWords) # {})
       => /\ isOk(last'.result)
          /\ \A i \in DOMAIN booksIndex :
               LongWords(searchWords) \subseteq TextWords(booksIndex[i])
                 => includes(last'.result.val, booksIndex[i])]_vars

\* C18: a call that returns a MISSING or BAD_TYPE error has changed neither
\* the catalog, nor the word index, nor either ledger mapping.
C18_MissingOrBadTypeChangesNothing ==
  [][(HasCode(last'.result, "MISSING") \/ HasCode(last'.result, "BAD_TYPE"))
       => UNCHANGED <<booksIndex, wordIndex, patronBooks, checkBooks>>]_vars

\* C18 witness: a checkoutBook call with a mistyped isbn was rejected with
\* BAD_TYPE while the catalog holds a book and the ledger has no entry.
C18_Witness ==
  /\ last.op = "checkoutBook" /\ HasCode(last.result, "BAD_TYPE")
  /\ Has(booksIndex, I1)
  /\ DOMAIN checkBooks = {} /\ DOMAIN patronBooks = {}

\* the schema an operation validates its request against
SchemaOf(op) ==
  CASE op = "addBook" -> RequiredTypeBook
    [] op = "findBooks" -> RequiredTypeFindBook
    [] OTHER -> RequiredTypeCheckBook

\* the required fields of a schema absent from a request, the fields of a
\* wrong type, and the fields violating a condition of the schema
MissingFields(req, config) ==
  {config[i].name : i \in {j \in 1..Len(config) :
     config[j].required /\ req[config[j].name].t = "missing"}}
MistypedFields(req, config) ==
  {config[i].name : i \in {j \in 1..Len(config) :
     /\ req[config[j].name].t \notin {"missing", "null"}
     /\ getSchemaFromType(req[config[j].name]) # config[j].type}}
OutOfRangeFields(req, config) ==
  {config[i].name : i \in {j \in 1..Len(config) :
     /\ req[config[j].name].t \notin {"missing", "null"}
     /\ \E c \in Elements(config[j].conds) : CondHolds(c, req[config[j].name])}}

\* C19: validation checks required fields, then types, then conditions and
\* stops at the first check that fails: a missing required field yields
\* only MISSING errors whatever else is wrong, a mistyped field of a complete
\* request only BAD_TYPE errors, and every error list holds one kind.
C19_ValidationStopsAtFirstFailingCheck ==
  [][last'.op # "new" =>
       LET req == last'.req
           config == SchemaOf(last'.op)
           result == last'.result
       IN
       /\ MissingFields(req, config) # {}
            => OnlyCode(result, "MISSING") /\ Widgets(result) = MissingFields(req, config)
       /\ (MissingFields(req, config) = {} /\ MistypedFields(req, config) # {})
            => OnlyCode(result, "BAD_TYPE") /\ Widgets(result) = MistypedFields(req, config)
       /\ (/\ MissingFields(req, config) = {} /\ MistypedFields(req, config) = {}
           /\ OutOfRangeFields(req, config) # {})
            => OnlyCode(result, "BAD_REQ") /\ Widgets(result) = OutOfRangeFields(req, config)
       /\ isErr(result)
            => \E code \in {"MISSING", "BAD_TYPE", "BAD_REQ"} : OnlyCode(result, code)]_vars

\* C19 witness: addBook without isbn, with mistyped authors and with zero
\* pages returned the MISSING error of isbn alone.
C19_Witness ==
  /\ last.op = "addBook"
  /\ MissingFields(last.req, RequiredTypeBook) = {"isbn"}
  /\ MistypedFields(last.req, RequiredTypeBook) = {"authors"}
  /\ OutOfRangeFields(last.req, RequiredTypeBook) = {"pages"}
  /\ OnlyCode(last.result, "MISSING") /\ Len(last.result.errors) = 1

\* C20: checkRequiredProps returns one MISSING error per required schema
\* field absent from the request, citing the field, and success only when
\* none is absent; the operation returns that error list.
C20_OneMissingErrorPerAbsentField ==
  last.op # "new" =>
    LET config == SchemaOf(last.op)
        absent == MissingFields(last.req, config)
        checked == checkRequiredProps(last.req, config)
    IN
    /\ absent = {} => checked = okResult(last.req)
    /\ absent # {} =>
         /\ OnlyCode(checked, "MISSING")
         /\ Len(checked.errors) = Cardinality(absent)
         /\ Widgets(checked) = absent
         /\ last.result = checked

\* C20 witness: addBook without title and pages returned two MISSING
\* errors, one citing each.
C20_Witness ==
  /\ last.op = "addBook" /\ OnlyCode(last.result, "MISSING")
  /\ Len(last.result.errors) = 2
  /\ Widgets(last.result) = {"title", "pages"}
  /\ DOMAIN booksIndex # {}

\* the schema fields present in a request with a shape other than the
\* declared type, null included
WrongShapeFields(req, config) ==
  {config[i].name : i \in {j \in 1..Len(config) :
     /\ req[config[j].name].t # "missing"
     /\ getSchemaFromType(req[config[j].name]) # config[j].type}}

\* C21: a request without absent required fields in which a schema field is
\* present with a shape other than its declared type, null included, is
\* answered with BAD_TYPE errors citing those fields.
C21_NullIsBadType ==
  [][last'.op # "new" =>
       LET req == last'.req
           config == SchemaOf(last'.op)
       IN (MissingFields(req, config) = {} /\ WrongShapeFields(req, config) # {})
            => /\ OnlyCode(last'.result, "BAD_TYPE")
               /\ Widgets(last'.result) = WrongShapeFields(req, config)]_vars

\* a positive integer number value
PositiveInteger(v) == v.t = "num" /\ v.int /\ v.n > 0

\* C22: every stored record has a page count, a publication year and a copy
\* count that are positive integers.
C22_StoredNumbersPositive ==
  \A i \in DOMAIN booksIndex :
    /\ PositiveInteger(booksIndex[i].pages)
    /\ PositiveInteger(booksIndex[i].year)
    /\ booksIndex[i].nCopies \in Nat \ {0}

\* C23: the stored copy count of each identifier equals the sum of the copy
\* counts of the successful addBook calls for it, an omitted count counting
\* as one, and no step decreases it.
C23_CopiesAreSumOfRegistrations ==
  [][/\ DOMAIN booksIndex' = DOMAIN added'
     /\ \A i \in DOMAIN booksIndex' : booksIndex'[i].nCopies = added'[i]
     /\ \A i \in DOMAIN booksIndex :
          i \in DOMAIN booksIndex' /\ booksIndex'[i].nCopies >= booksIndex[i].nCopies]_vars

\* C23 witness: I1 reached three copies by a registration of two and a
\* re-registration that omitted the count.
C23_Witness ==
  /\ last.op = "addBook" /\ isOk(last.result) /\ last.req.isbn = Str(I1)
  /\ last.req.nCopies = Missing
  /\ booksIndex[I1].nCopies = 3 /\ added[I1] = 3

\* C24: no step changes the title, authors, pages, year or publisher of a
\* registered identifier, nor removes it; only its copy count can change.
C24_RegisteredFieldsImmutable ==
  [][\A i \in DOMAIN booksIndex :
       /\ i \in DOMAIN booksIndex'
       /\ \A f \in RequiredBookFields : booksIndex'[i][f] = booksIndex[i][f]]_vars

\* C24 witness: a re-registration of I1 under another title was rejected
\* after its copy count had grown, and the stored title is the first one.
C24_Witness ==
  /\ last.op = "addBook" /\ isErr(last.result)
  /\ last.req.isbn = Str(I1) /\ last.req.title = Str(TitleB)
  /\ Has(booksIndex, I1) /\ booksIndex[I1].title = Str(TitleA)
  /\ booksIndex[I1].nCopies > 1

\* the tokens of the index and of the registered books' titles and authors
Tokens ==
  DOMAIN wordIndex \cup UNION {TextWords(booksIndex[i]) : i \in DOMAIN booksIndex}

\* C25: the word index is the index derived from the catalog: an identifier
\* is listed under a token exactly if it is registered and its title or one
\* of its authors holds the token.
C25_WordIndexDerivedFromCatalog ==
  \A w \in Tokens :
    Elements(GetOrEmpty(wordIndex, w))
      = {booksIndex[i].isbn : i \in {j \in DOMAIN booksIndex : w \in TextWords(booksIndex[j])}}

\* C25 witness: both books are registered, I1 with two authors, and a
\* re-registration of I1 was accepted.
C25_Witness ==
  /\ DOMAIN booksIndex = {I1, I2}
  /\ Len(booksIndex[I1].authors.a) = 2 /\ booksIndex[I1].nCopies > 1
  /\ Elements(GetOrEmpty(wordIndex, <<"d", "z">>)) = {Str(I1)}
  /\ Elements(GetOrEmpty(wordIndex, <<"a", "b">>)) = {Str(I1), Str(I2)}

\* xs is an initial part of ys
IsPrefix(xs, ys) == Len(xs) <= Len(ys) /\ SubSeq(ys, 1, Len(xs)) = xs

\* C26: the word index is append-only: no step removes a token or removes
\* an identifier from a token's entry.
C26_WordIndexAppendOnly ==
  [][\A w \in DOMAIN wordIndex :
       /\ w \in DOMAIN wordIndex'
       /\ IsPrefix(wordIndex[w], wordIndex'[w])]_vars

\* C26 witness: the registration of a second book has extended the entry of
\* a token that already listed the first.
C26_Witness ==
  /\ last.op = "addBook" /\ isOk(last.result) /\ last.result.val.nCopies = 1
  /\ DOMAIN booksIndex = {I1, I2}
  /\ Len(wordIndex[<<"c", "d">>]) = 2
  /\ wordIndex[<<"c", "d">>][2] = last.req.isbn

\* C27: checkoutBook and returnBook for an isbn that is not in the catalog
\* fail with one BAD_REQ error citing the isbn field and leave both ledger
\* mappings unchanged.
C27_UnknownIsbnRejected ==
  [][((Called("checkoutBook") \/ Called("returnBook")) /\ ~Has(booksIndex, reqIsbn))
       => /\ last'.result = ErrResult(<<Err("BAD_REQ", "isbn")>>)
          /\ UNCHANGED <<patronBooks, checkBooks>>]_vars

\* C27 witness: a patron holding a book asked to return another isbn that
\* is not in the catalog and was refused.
C27_Witness ==
  /\ last.op = "returnBook" /\ StringPair(last.req)
  /\ ~Has(booksIndex, last.req.isbn.s)
  /\ OnlyCode(last.result, "BAD_REQ")
  /\ holdings(last.req.patronId.s) # <<>>

\* a checkout of an isbn that is not in the catalog was refused
C27_CheckoutRefused ==
  /\ last.op = "checkoutBook" /\ StringPair(last.req)
  /\ ~Has(booksIndex, last.req.isbn.s)
  /\ OnlyCode(last.result, "BAD_REQ")
  /\ holdings(last.req.patronId.s) # <<>>

\* C28: the list of a successful findBooks is in ascending order of the
\* lower-cased titles: no result is followed by one of a smaller title.
C28_ResultSortedByTitle ==
  (last.op = "findBooks" /\ isOk(last.result))
    => \A k \in 1..(Len(last.result.val) - 1) :
         localeCompare(toLowerCase(last.result.val[k].title.s),
                       toLowerCase(last.result.val[k + 1].title.s)) <= 0

\* C28 witness: a query returned "Ab ab" before "ab c" although the index
\* lists the book titled "ab c" first.
C28_Witness ==
  /\ last.op = "findBooks" /\ isOk(last.result) /\ Len(last.result.val) = 2
  /\ last.result.val[1].title = Str(TitleA) /\ last.result.val[2].title = Str(TitleB)
  /\ wordIndex[<<"a", "b">>][1] = last.result.val[2].isbn

\* C29: every isbn with at least one holder in the ledger is the identifier
\* of a record in the catalog.
C29_HeldBooksAreRegistered ==
  \A i \in DOMAIN checkBooks : checkBooks[i] # <<>> => Has(booksIndex, i)

\* C29 witness: one book has two holders, and a checkout of an isbn without
\* a record was just refused.
C29_Witness ==
  /\ \E i \in DOMAIN checkBooks : Len(checkBooks[i]) = 2
  /\ last.op = "checkoutBook" /\ StringPair(last.req)
  /\ ~Has(booksIndex, last.req.isbn.s) /\ isErr(last.result)

C30_LastCopyLentTwice ==
  \E i \in DOMAIN booksIndex : Len(holders(i)) > booksIndex[i].nCopies

\* the words joined by single spaces
RECURSIVE joinWords(_)
joinWords(words) ==
  IF words = <<>> THEN <<>>
  ELSE IF Len(words) = 1 THEN Head(words)
  ELSE Head(words) \o <<" ">> \o joinWords(Tail(words))

\* the rearrangements of a sequence
Rearrangements(xs) ==
  {[k \in 1..Len(xs) |-> xs[f[k]]] :
     f \in {g \in [1..Len(xs) -> 1..Len(xs)] : \A a, b \in 1..Len(xs) : g[a] = g[b] => a = b}}

\* C31: for every accepted query, the query made of any rearrangement of its
\* tokens returns the same list of books.
C31_QueryOrderIrrelevant ==
  \A q \in Queries :
    isOk(findBooks(lib, [search |-> Str(q)]).result)
      => \A order \in Rearrangements(extractWords(q)) :
           findBooks(lib, [search |-> Str(joinWords(order))]).result
             = findBooks(lib, [search |-> Str(q)]).result

\* a ledger mapping without its keys of no entries
NonEmptyEntries(record) ==
  [k \in {j \in DOMAIN record : record[j] # <<>>} |-> record[k]]

\* the library with the same catalog and the same active pairs and nothing
\* else in its ledger
ActivePairsOnly(l) ==
  [l EXCEPT !.patronBooks = NonEmptyEntries(@), !.checkBooks = NonEmptyEntries(@)]

\* C32: the outcome of checkoutBook and of returnBook for a request is the
\* outcome the same request has in the library of the same catalog and the
\* same active pairs without traces of earlier calls.
C32_OutcomeDependsOnActivePairsOnly ==
  \A req \in PairReqs :
    /\ checkoutBook(lib, req).result = checkoutBook(ActivePairsOnly(lib), req).result
    /\ returnBook(lib, req).result = returnBook(ActivePairsOnly(lib), req).result

\* C33: a successful findBooks result holds no book twice, and holds every
\* registered book whose title and authors hold all tokens of the query.
C33_EachMatchOnce ==
  (last.op = "findBooks" /\ isOk(last.result))
    => /\ \A j, k \in 1..Len(last.result.val) :
            last.result.val[j].isbn = last.result.val[k].isbn => j = k
       /\ \A i \in DOMAIN booksIndex :
            Elements(extractWords(last.req.search.s)) \subseteq TextWords(booksIndex[i])
              => \E j \in 1..Len(last.result.val) : last.result.val[j] = booksIndex[i]

\* C33 witness: the index lists I1 twice under "ab", which occurs twice in
\* its title, and a query of "ab" returned I1 once.
C33_Witness ==
  /\ last.op = "findBooks" /\ isOk(last.result)
  /\ last.req.search = Str(<<"a", "b">>)
  /\ Has(wordIndex, <<"a", "b">>)
  /\ Len(SelectSeq(wordIndex[<<"a", "b">>], LAMBDA x : x = Str(I1))) = 2
  /\ Len(SelectSeq(last.result.val, LAMBDA b : b.isbn = Str(I1))) = 1

\* C34: a findBooks call, successful or not, leaves the catalog, the word
\* index and both ledger mappings unchanged.
C34_FindBooksReadOnly ==
  [][last'.op = "findBooks"
       => UNCHANGED <<booksIndex, wordIndex, patronBooks, checkBooks>>]_vars

\* C34 witness: a query with a word of no entry in the index succeeded while
\* the catalog and the ledger hold entries.
C34_Witness ==
  /\ last.op = "findBooks" /\ isOk(last.result)
  /\ \E w \in Elements(extractWords(last.req.search.s)) : ~Has(wordIndex, w)
  /\ DOMAIN booksIndex # {} /\ DOMAIN patronBooks # {}

\* C35: checkoutBook and returnBook leave the catalog, copy counts included,
\* and the word index unchanged, and addBook leaves both ledger mappings
\* unchanged.
C35_LedgerAndCatalogSeparate ==
  [][/\ last'.op \in {"checkoutBook", "returnBook"} => UNCHANGED <<booksIndex, wordIndex>>
     /\ last'.op = "addBook" => UNCHANGED <<patronBooks, checkBooks>>]_vars

\* C35 witness: a book was registered while one patron holds a book and
\* another patron's list is empty after a return.
C35_Witness ==
  /\ last.op = "addBook" /\ isOk(last.result) /\ last.result.val.nCopies = 1
  /\ \E p \in Patrons : Has(patronBooks, p) /\ patronBooks[p] # <<>>
  /\ \E p \in Patrons : Has(patronBooks, p) /\ patronBooks[p] = <<>>

\* what fetchAPI returns for a parsed response
C36_ReturnsResponse ==
  IF isOk(ws.response) THEN ws.result = VOID_RESULT
  ELSE isErr(ws.result) /\ ws.result.errors = ws.response.errors

C36_Bounded ==
  /\ ws.attempts <= ws.maxRetries
  /\ ws.retries = ws.attempts - (IF ws.parsed THEN 1 ELSE 0)
  /\ ws.parsed => ws.at = "done" /\ C36_ReturnsResponse
  /\ (ws.at = "done" /\ ~ws.parsed)
       => isErr(ws.result) /\ ws.retries = ws.maxRetries
  /\ ws.at \in {"fetch", "sleep"} => ws.retries < ws.maxRetries

\* C36: fetchAPI makes at most maxRetries attempts, retries only after an
\* attempt that threw, returns an error after the maxRetries-th throw,
\* returns the parsed response of the first attempt that yields one, and
\* every call ends with a result.
C36_FetchAPITerminates ==
  /\ []C36_Bounded
  /\ (ws.at \in {"fetch", "sleep"}) ~> (ws.at = "done")

\* C36 witness: a call that returned the server's errors on its third
\* attempt, after two attempts that threw.
C36_Witness ==
  /\ ws.at = "done" /\ ws.maxRetries = DefaultMaxRetries
  /\ ws.attempts = 3 /\ ws.retries = 2 /\ ws.parsed /\ isErr(ws.result)

\* C37: a checkout the server applied is reported as a success by the
\* client call that requested it, and is applied once.
C37_AppliedCheckoutReported ==
  (ws.method = "PUT" /\ ws.applied >= 1)
    => /\ ws.applied = 1
       /\ ws.at = "done" => isOk(ws.result)

\* C38: the search-result list and the details of the selected book are
\* never shown together.
C38_ListAndDetailsExclusive ==
  ui.selectedBook.t # "null" => ui.books = <<>>

\* the positions of the errors whose code ERROR_MAP maps
C39_Mapped(errors) ==
  {i \in 1..Len(errors) :
     Has(errors[i].options, "code") /\ Has(ERROR_MAP, errors[i].options.code)}

C39_StatusAt(errors, i) == ERROR_MAP[errors[i].options.code]

\* C39: getHttpStatus returns INTERNAL_SERVER_ERROR when any error maps to
\* it, otherwise the status of the first error with a mapped code, and
\* BAD_REQUEST when no error has a mapped code.
C39_FirstMappedStatus ==
  web.fn = "getHttpStatus"
    => LET mapped == C39_Mapped(web.errors) IN
       IF \E i \in mapped : C39_StatusAt(web.errors, i) = INTERNAL_SERVER_ERROR
       THEN web.status = INTERNAL_SERVER_ERROR
       ELSE IF mapped # {}
       THEN web.status =
              C39_StatusAt(web.errors, CHOOSE i \in mapped : \A j \in mapped : i <= j)
       ELSE web.status = BAD_REQUEST

\* C39 witness: the second of two differently mapped codes follows an
\* unmapped one and an error without code, and the first one's status is
\* returned.
C39_Witness ==
  /\ web.fn = "getHttpStatus"
  /\ web.errors = <<ErrWithCode("UNKNOWN"), ErrWithCode("NOT_FOUND"), ErrWithCode("EXISTS")>>
  /\ web.status = NOT_FOUND

\* C40: pagedResult gives a next link exactly when there are more results
\* than the requested count, a prev link exactly when the index is above 0,
\* the prev link's index is max(0, index - count), the next link's index is
\* index + count, and the page holds at most count results.
C40_PagingLinks ==
  web.fn = "pagedResult"
    => LET count == NumberOr(web.count, web.defaultCount)
           index == NumberOr(web.index, 0)
           e == web.envelope
       IN /\ (e.next.t = "link") <=> (web.nResults > count)
          /\ (e.prev.t = "link") <=> (index > 0)
          /\ e.prev.t = "link"
               => StringToNumber(e.prev.index) = (IF index - count > 0 THEN index - count ELSE 0)
          /\ e.next.t = "link" => StringToNumber(e.next.index) = index + count
          /\ Len(e.result) <= count

====
